---- MODULE Spec2Model ----
(***************************************************************************)
(* Voice recorder with silence detection (client/src/core/voice_recorder.py)*)
(*                                                                         *)
(* Three kinds of threads act on one VoiceRecorder object:                 *)
(*   - the caller's thread: start_recording(), stop_recording(), reset();  *)
(*   - one audio I/O thread per input stream, running _audio_callback;     *)
(*   - one monitor thread per successful start, running _monitor_silence.  *)
(* Nothing in the class takes a lock, so each handler is cut at the points *)
(* where another thread can observe or change the shared fields.           *)
(*                                                                         *)
(* Time is counted in poll intervals of the monitor (time.sleep(0.1)).     *)
(* Python's None is 0 for thread and stream references and -1 for times.   *)
(***************************************************************************)
EXTENDS Integers, Sequences, FiniteSets, TLC

\* ---------------------------------------------------------------- bounds
MaxLive == 2            \* streams, and monitor threads, alive at one time
MaxFrames == 2          \* frames the buffer holds in the model
MaxTime == 4            \* last instant of the clock
MaxFaults == 1          \* exceptions raised and joins timed out in one run
MaxCalls == 2           \* display_response / display_error calls in one run
MaxPending == 2         \* commands waiting when a thread puts another one

\* ------------------------------------------------------ program constants
POLL == 1               \* time.sleep(0.1): one poll interval
SAMPLE_RATE == 16000
None == 0
Unset == -1

\* Constructor arguments (silence_threshold, silence_duration,
\* max_recording_time, min_recording_time) in poll intervals / sample units.
\* The first is the shape of the defaults (min < min + silence < max), the
\* second has the minimum above the maximum, the third lacks sounddevice.
Configs ==
  { [avail |-> TRUE,  thr |-> 2, min |-> 1, sil |-> 2, max |-> 4],
    [avail |-> TRUE,  thr |-> 2, min |-> 3, sil |-> 1, max |-> 2],
    [avail |-> FALSE, thr |-> 2, min |-> 1, sil |-> 2, max |-> 4] }

\* Blocks of mono float32 samples the device can deliver (never empty).
\* With thr = 2: <<1>> is below the threshold, <<2, 2>> is exactly at it.
FrameData == { <<1>>, <<2, 2>> }

Ids == 1..MaxLive

VARIABLES
  cfg,                  \* constructor arguments and SOUNDDEVICE_AVAILABLE
  now,                  \* time.time()
  pc,                   \* position of the caller's thread
  in_start,             \* reset() was called from start_recording()
  ret,                  \* last value returned to the caller
  is_recording,         \* self.is_recording
  audio_data,           \* self.audio_data
  monitoring_thread,    \* self.monitoring_thread
  stop_event,           \* self.stop_event
  stream,               \* self.stream
  recording_start_time, \* self.recording_start_time (Unset: no attribute)
  streams,              \* state of every sd.InputStream ever constructed
  cb,                   \* position of each stream's I/O thread in the callback
  mon,                  \* every monitor thread: position, locals, and the
                        \* recording_start_time of the session it serves
  faults,               \* exceptions raised and joins timed out so far
  stop_cause,           \* who set stop_event since it was last cleared
  lastCompletedAudio,   \* the bytes of the last finalized session
  caller,               \* thread running the operation: None is the client's
                        \* thread, t is monitor thread t
  full_audio,           \* local of stop_recording: np.concatenate's result
  join_timed_out,       \* a join of the operation in progress, or of the last
                        \* one, returned with the thread still alive
  tts,                  \* the request being served by POST /tts/speak
  flow,                 \* the client's hotkey handler (main.py)
  overlay               \* the overlay window and its command queue
                        \* (ui/overlay.py)

rec == <<is_recording, audio_data, monitoring_thread, stop_event, stream,
         recording_start_time>>
recorder == <<cfg, now, pc, in_start, ret, is_recording, audio_data,
              monitoring_thread, stop_event, stream, recording_start_time,
              streams, cb, mon, faults, stop_cause, lastCompletedAudio,
              caller, full_audio, join_timed_out>>
vars == <<cfg, now, pc, in_start, ret, is_recording, audio_data,
          monitoring_thread, stop_event, stream, recording_start_time,
          streams, cb, mon, faults, stop_cause,
          lastCompletedAudio, caller, full_audio, join_timed_out, tts, flow,
          overlay>>

\* ---------------------------------------------------------------- values
NoAudio == [isnone |-> TRUE, rate |-> 0, data |-> <<>>]
NoMon == [pc |-> "dead", silence_start |-> Unset, sleep |-> 0,
          started |-> Unset]
Pending == [op |-> "none", at |-> 0, ok |-> FALSE, val |-> NoAudio]

\* POST /api/v1/tts/speak (server/src/api/endpoints/tts.py): request bodies,
\* and what service.speak can do: return bytes, possibly none, or raise.
Texts == {"hello", "bye", ""}
Languages == {"en", "de"}
Audio == { <<>>, <<7>>, <<7, 8>>, <<9>> }
ServiceResults ==
  {[raised |-> TRUE, audio |-> <<>>]}
    \cup {[raised |-> FALSE, audio |-> a] : a \in Audio}
NoResult == [raised |-> FALSE, audio |-> <<>>]
NoResponse == [status |-> 0, media_type |-> "", body |-> <<>>]
NoRequest == [pc |-> "idle", text |-> "", language |-> "", calls |-> 0,
              first |-> NoResult, response |-> NoResponse]
\* StreamingResponse(content=BytesIO(audio), media_type="audio/wav")
StreamingResponse(audio) ==
  [status |-> 200, media_type |-> "audio/wav", body |-> audio]


\* The hotkey handlers of main.py: _claude_analysis_main ("claude") and
\* capture_screenshot_and_record_voice ("openai").  max_wait_time = 35.0 is
\* the watchdog of their wait loops, just above the recorder's default
\* max_recording_time = 30.0; get_voice_recorder() builds the recorder with
\* its defaults (minimum, then silence, within the maximum).
MAX_WAIT == 3
FlowConfigs ==
  { [avail |-> TRUE,  thr |-> 2, min |-> 1, sil |-> 1, max |-> 2],
    [avail |-> FALSE, thr |-> 2, min |-> 1, sil |-> 1, max |-> 2] }
NoFlow == [pc |-> "idle", kind |-> "none", wait_start |-> Unset, sleep |-> 0]

\* ui/overlay.py: the overlay after SciFiOverlay.__init__ (no window, no
\* text widget) with the module's empty _command_queue.  requested and
\* displayed note the texts handed to display_response / display_error and
\* the texts inserted into the text widget, in order.
Messages == {"m1", "m2"}
NoOverlay == [queue |-> <<>>, window |-> FALSE, text_widget |-> FALSE,
              text |-> "", requested |-> <<>>, displayed |-> <<>>]
Command(fn, arg, show) == [fn |-> fn, arg |-> arg, show |-> show]
show_window_command == Command("_show_window_main_thread", "", FALSE)
update_status_command == Command("_update_status_main_thread", "", FALSE)

\* threading.Event.set(): the first setter since the last clear() is noted.
set_stop_event(who) == IF stop_event THEN stop_cause ELSE who

Returned(op, at, ok, val) == [op |-> op, at |-> at, ok |-> ok, val |-> val]

RECURSIVE concatenate(_)
concatenate(chunks) ==
  IF chunks = <<>> THEN <<>>
  ELSE chunks[1].data \o concatenate(Tail(chunks))

\* sf.write(buffer, full_audio, self.sample_rate, format='WAV')
wav_bytes(samples) ==
  [isnone |-> FALSE, rate |-> SAMPLE_RATE, data |-> samples]

RECURSIVE SumSq(_)
SumSq(s) == IF s = <<>> THEN 0 ELSE s[1] * s[1] + SumSq(Tail(s))

\* volume < self.silence_threshold, with volume = sqrt(mean(chunk ** 2)):
\* both sides squared and multiplied by the length of the chunk.
below_threshold(chunk) == SumSq(chunk) < cfg.thr * cfg.thr * Len(chunk)

is_alive(t) == t # None /\ mon[t].pc = "loop"
is_open(s) == streams[s] \in {"open", "running"}

\* Identities of stream and thread objects are reused once the object is
\* gone: a closed stream that nothing refers to and whose I/O thread has
\* left the callback, a thread that has ended and is not referred to.
free_stream(s) ==
  /\ streams[s] = "closed"
  /\ cb[s] = "idle"
  /\ stream # s
  /\ \A i \in 1..Len(audio_data) : audio_data[i].src # s
free_thread(t) == mon[t].pc = "dead" /\ monitoring_thread # t
Least(S) == CHOOSE x \in S : \A y \in S : x <= y

\* Only differences of clock readings are used (lines 140, 161, 175).  The
\* clock is followed while some thread holds a reading: between lines 213
\* and 226 of start_recording, and while a monitor thread runs.  When no
\* thread does, its origin is moved to the present.
clock_in_use(monitors, at) ==
  \/ \E t \in Ids : monitors[t].pc = "loop"
  \/ at \in {"start_stream", "start_spawn"}
  \/ flow.pc = "wait"
rebased(reading, monitors, at) ==
  IF clock_in_use(monitors, at) \/ reading = Unset THEN reading ELSE 0

\* The fields after __init__, whatever the constructor's arguments.
Constructed ==
  /\ now = 0
  /\ pc = "idle"
  /\ in_start = FALSE
  /\ ret = Pending
  /\ is_recording = FALSE
  /\ audio_data = <<>>
  /\ monitoring_thread = None
  /\ stop_event = FALSE
  /\ stream = None
  /\ recording_start_time = Unset
  /\ streams = [s \in Ids |-> "closed"]
  /\ cb = [s \in Ids |-> "idle"]
  /\ mon = [t \in Ids |-> NoMon]
  /\ faults = 0
  /\ stop_cause = "none"
  /\ lastCompletedAudio = NoAudio
  /\ caller = None
  /\ full_audio = <<>>
  /\ join_timed_out = FALSE
  /\ tts = NoRequest
  /\ flow = NoFlow
  /\ overlay = NoOverlay

Init == cfg \in Configs /\ Constructed

\* An exception or a join timeout is taken while the budget lasts.
Fault(taken) ==
  IF taken THEN faults < MaxFaults /\ faults' = faults + 1
  ELSE UNCHANGED faults

\* ----------------------------------------------------------------- clock
\* Time is only followed while a thread reads the clock: from the moment
\* recording_start_time is taken and while a monitor thread runs.
Tick ==
  /\ now < MaxTime
  /\ clock_in_use(mon, pc)
  /\ now' = now + 1
  /\ mon' = [t \in Ids |->
              [mon[t] EXCEPT !.sleep = IF @ > 0 THEN @ - 1 ELSE 0]]
  /\ UNCHANGED <<cfg, pc, in_start, ret, is_recording, audio_data,
                 monitoring_thread, stop_event, stream, recording_start_time,
                 streams, cb, faults>>
  /\ UNCHANGED <<stop_cause, lastCompletedAudio>>
  /\ flow' = [flow EXCEPT !.sleep = IF @ > 0 THEN @ - 1 ELSE 0]
  /\ UNCHANGED <<caller, full_audio, join_timed_out, tts, overlay>>

\* ---------------------------------------------------------------- caller
\* The client calls one of the three public operations.  A start that gets
\* past the guards needs a stream and a thread identity.
Call(op) ==
  /\ pc = "idle"
  /\ op = "start" /\ cfg.avail /\ ~is_recording =>
       (\E s \in Ids : free_stream(s)) /\ (\E t \in Ids : free_thread(t))
  /\ pc' = op
  /\ UNCHANGED <<cfg, now, in_start, is_recording, audio_data,
                 monitoring_thread, stop_event, stream, recording_start_time,
                 streams, cb, mon, faults>>
  /\ ret' = Pending
  /\ UNCHANGED <<stop_cause, lastCompletedAudio>>
  /\ caller' = None
  /\ join_timed_out' = FALSE
  /\ UNCHANGED <<full_audio, tts, flow, overlay>>

\* stop_recording() or reset() invoked on a running monitor thread, the case
\* the tests of lines 257 and 301 provide for.  (_monitor_silence itself
\* calls neither: it only sets stop_event.)
CallOnMonitor(op, t) ==
  /\ pc = "idle"
  /\ mon[t].pc = "loop" /\ mon[t].sleep = 0
  /\ pc' = op
  /\ caller' = t
  /\ ret' = Pending
  /\ join_timed_out' = FALSE
  /\ UNCHANGED <<cfg, now, in_start, is_recording, audio_data,
                 monitoring_thread, stop_event, stream, recording_start_time,
                 streams, cb, mon, faults>>
  /\ UNCHANGED <<stop_cause, lastCompletedAudio, full_audio, tts, flow, overlay>>

\* The caller's watchdog: recorder.stop_event.set() after max_wait_time.
ExternalSetStop ==
  /\ pc = "idle"
  /\ is_recording
  /\ ~stop_event
  /\ stop_event' = TRUE
  /\ UNCHANGED <<cfg, now, pc, in_start, ret, is_recording, audio_data,
                 monitoring_thread, stream, recording_start_time,
                 streams, cb, mon, faults>>
  /\ stop_cause' = "caller"
  /\ UNCHANGED lastCompletedAudio
  /\ UNCHANGED <<caller, full_audio, join_timed_out, tts, flow, overlay>>

\* ------------------------------------------------------ start_recording
\* Lines 187-194: the two guards, each returning False.
StartRefused ==
  /\ pc = "start"
  /\ ~cfg.avail \/ is_recording
  /\ pc' = "idle"
  /\ ret' = Returned("start", IF ~cfg.avail THEN 189 ELSE 194, FALSE, NoAudio)
  /\ UNCHANGED <<cfg, now, in_start, is_recording, audio_data,
                 monitoring_thread, stop_event, stream, recording_start_time,
                 streams, cb, mon, faults>>
  /\ UNCHANGED <<stop_cause, lastCompletedAudio>>
  /\ UNCHANGED <<caller, full_audio, join_timed_out, tts, flow, overlay>>

\* StartBegin without the guard of line 191.
StartBegin_unguarded ==
  /\ pc = "start"
  /\ cfg.avail
  /\ pc' = "start_sleep"
  /\ UNCHANGED <<cfg, now, in_start, ret, is_recording, audio_data,
                 monitoring_thread, stop_event, stream, recording_start_time,
                 streams, cb, mon, faults>>
  /\ UNCHANGED <<stop_cause, lastCompletedAudio>>
  /\ UNCHANGED <<caller, full_audio, join_timed_out, tts, flow, overlay>>

\* Lines 196-203: past the guards; the start chime and time.sleep(0.4).
StartBegin ==
  /\ pc = "start"
  /\ cfg.avail /\ ~is_recording
  /\ pc' = "start_sleep"
  /\ UNCHANGED <<cfg, now, in_start, ret, is_recording, audio_data,
                 monitoring_thread, stop_event, stream, recording_start_time,
                 streams, cb, mon, faults>>
  /\ UNCHANGED <<stop_cause, lastCompletedAudio>>
  /\ UNCHANGED <<caller, full_audio, join_timed_out, tts, flow, overlay>>

\* Lines 205-207: a monitor thread that is still alive is told to stop.
StartCleanup ==
  /\ pc = "start_sleep"
  /\ IF is_alive(monitoring_thread)
     THEN /\ stop_event' = TRUE
          /\ pc' = "start_join"
          /\ UNCHANGED in_start
     ELSE /\ pc' = "reset"
          /\ in_start' = TRUE
          /\ UNCHANGED stop_event
  /\ UNCHANGED <<cfg, now, ret, is_recording, audio_data,
                 monitoring_thread, stream, recording_start_time,
                 streams, cb, mon, faults>>
  /\ stop_cause' = (IF is_alive(monitoring_thread) THEN set_stop_event("controller")
                  ELSE stop_cause)
  /\ UNCHANGED lastCompletedAudio
  /\ UNCHANGED <<caller, full_audio, join_timed_out, tts, flow, overlay>>

\* Line 208: monitoring_thread.join(timeout=1.0) returns, the thread having
\* ended or the timeout having expired; line 211 then calls reset().
StartJoin(timed_out) ==
  /\ pc = "start_join"
  /\ timed_out <=> is_alive(monitoring_thread)
  /\ pc' = "reset"
  /\ in_start' = TRUE
  /\ UNCHANGED <<cfg, now, ret, is_recording, audio_data,
                 monitoring_thread, stop_event, stream, recording_start_time,
                 streams, cb, mon>>
  /\ UNCHANGED <<stop_cause, lastCompletedAudio>>
  /\ Fault(timed_out)
  /\ join_timed_out' = (join_timed_out \/ timed_out)
  /\ UNCHANGED <<caller, full_audio, tts, flow, overlay>>

\* Lines 212-213.
StartActivate ==
  /\ pc = "start_activate"
  /\ is_recording' = TRUE
  /\ recording_start_time' = now
  /\ pc' = "start_stream"
  /\ UNCHANGED <<cfg, now, in_start, ret, audio_data,
                 monitoring_thread, stop_event, stream,
                 streams, cb, mon, faults>>
  /\ UNCHANGED <<stop_cause, lastCompletedAudio>>
  /\ UNCHANGED <<caller, full_audio, join_timed_out, tts, flow, overlay>>

\* Lines 215-222: sd.InputStream(...) and stream.start(); either may raise,
\* which lands in the handler of lines 231-234.
StartStream(outcome) ==
  LET new_stream == Least({s \in Ids : free_stream(s)}) IN
  /\ pc = "start_stream"
  /\ \/ /\ outcome = "ok"
        /\ stream' = new_stream
        /\ streams' = [streams EXCEPT ![new_stream] = "running"]
        /\ pc' = "start_spawn"
        /\ UNCHANGED <<is_recording, ret>>
     \/ /\ outcome = "open_raises"
        /\ is_recording' = FALSE
        /\ pc' = "idle"
        /\ ret' = Returned("start", 234, FALSE, NoAudio)
        /\ UNCHANGED <<stream, streams>>
     \/ /\ outcome = "start_raises"
        /\ stream' = new_stream
        /\ streams' = [streams EXCEPT ![new_stream] = "open"]
        /\ is_recording' = FALSE
        /\ pc' = "idle"
        /\ ret' = Returned("start", 234, FALSE, NoAudio)
  /\ now' = rebased(now, mon, pc')
  /\ recording_start_time' = rebased(recording_start_time, mon, pc')
  /\ UNCHANGED <<cfg, in_start, audio_data, monitoring_thread,
                 stop_event, cb, mon>>
  /\ UNCHANGED <<stop_cause, lastCompletedAudio>>
  /\ Fault(outcome # "ok")
  /\ UNCHANGED <<caller, full_audio, join_timed_out, tts, flow, overlay>>

\* StartSpawn whose exception handler leaves is_recording as it is.
StartSpawn_keeps_flag(ok) ==
  LET new_thread == Least({t \in Ids : free_thread(t)}) IN
  /\ pc = "start_spawn"
  /\ monitoring_thread' = new_thread
  /\ IF ok
     THEN /\ mon' = [mon EXCEPT ![new_thread] =
                       [pc |-> "loop", silence_start |-> Unset, sleep |-> 0,
                        started |-> recording_start_time]]
          /\ ret' = Returned("start", 229, TRUE, NoAudio)
     ELSE /\ ret' = Returned("start", 234, FALSE, NoAudio)
          /\ UNCHANGED mon
  /\ UNCHANGED is_recording
  /\ pc' = "idle"
  /\ now' = rebased(now, mon', pc')
  /\ recording_start_time' = rebased(recording_start_time, mon', pc')
  /\ UNCHANGED <<cfg, in_start, audio_data, stop_event, stream,
                 streams, cb>>
  /\ UNCHANGED <<stop_cause, lastCompletedAudio>>
  /\ Fault(~ok)
  /\ UNCHANGED <<caller, full_audio, join_timed_out, tts, flow, overlay>>

\* Lines 224-229: the monitor thread is created and started (its start may
\* raise: lines 231-234); _monitor_silence begins at lines 134-136.
StartSpawn(ok) ==
  LET new_thread == Least({t \in Ids : free_thread(t)}) IN
  /\ pc = "start_spawn"
  /\ monitoring_thread' = new_thread
  /\ IF ok
     THEN /\ mon' = [mon EXCEPT ![new_thread] =
                       [pc |-> "loop", silence_start |-> Unset, sleep |-> 0,
                        started |-> recording_start_time]]
          /\ ret' = Returned("start", 229, TRUE, NoAudio)
          /\ UNCHANGED is_recording
     ELSE /\ is_recording' = FALSE
          /\ ret' = Returned("start", 234, FALSE, NoAudio)
          /\ UNCHANGED mon
  /\ pc' = "idle"
  /\ now' = rebased(now, mon', pc')
  /\ recording_start_time' = rebased(recording_start_time, mon', pc')
  /\ UNCHANGED <<cfg, in_start, audio_data, stop_event, stream,
                 streams, cb>>
  /\ UNCHANGED <<stop_cause, lastCompletedAudio>>
  /\ Fault(~ok)
  /\ UNCHANGED <<caller, full_audio, join_timed_out, tts, flow, overlay>>

\* ----------------------------------------------------------------- reset
\* Lines 240-243.
ResetBegin ==
  /\ pc = "reset"
  /\ IF is_recording
     THEN is_recording' = FALSE /\ stop_event' = TRUE
     ELSE UNCHANGED <<is_recording, stop_event>>
  /\ pc' = "reset_stream"
  /\ UNCHANGED <<cfg, now, in_start, ret, audio_data, monitoring_thread,
                 stream, recording_start_time, streams, cb, mon,
                 faults>>
  /\ stop_cause' = (IF is_recording THEN set_stop_event("controller")
                  ELSE stop_cause)
  /\ UNCHANGED lastCompletedAudio
  /\ UNCHANGED <<caller, full_audio, join_timed_out, tts, flow, overlay>>

\* Lines 245-252: stream.stop() waits for a running callback to return; an
\* exception of stop() skips close(), and either exception is swallowed.
ResetStream(outcome) ==
  /\ pc = "reset_stream"
  /\ IF stream = None
     THEN outcome = "ok" /\ UNCHANGED streams
     ELSE \/ /\ outcome = "ok"
             /\ cb[stream] = "idle"
             /\ streams' = [streams EXCEPT ![stream] = "closed"]
          \/ /\ outcome = "stop_raises"
             /\ UNCHANGED streams
          \/ /\ outcome = "close_raises"
             /\ cb[stream] = "idle"
             /\ streams' = [streams EXCEPT ![stream] = "open"]
  /\ stream' = None
  /\ pc' = "reset_join"
  /\ UNCHANGED <<cfg, now, in_start, ret, is_recording, audio_data,
                 monitoring_thread, stop_event, recording_start_time,
                 cb, mon>>
  /\ UNCHANGED <<stop_cause, lastCompletedAudio>>
  /\ Fault(outcome # "ok")
  /\ UNCHANGED <<caller, full_audio, join_timed_out, tts, flow, overlay>>

\* ResetClear without the stop_event.clear() of line 269.
ResetClear_keeps_event(timed_out) ==
  /\ pc = "reset_join"
  /\ timed_out <=> (is_alive(monitoring_thread) /\ monitoring_thread # caller)
  /\ is_recording' = FALSE
  /\ audio_data' = <<>>
  /\ monitoring_thread' = None
  /\ IF in_start
     THEN pc' = "start_activate" /\ UNCHANGED ret
     ELSE pc' = "idle" /\ ret' = Returned("reset", 271, TRUE, NoAudio)
  /\ in_start' = FALSE
  /\ UNCHANGED <<cfg, now, stream, recording_start_time, streams, cb, mon,
                 stop_event, stop_cause>>
  /\ lastCompletedAudio' = NoAudio
  /\ Fault(timed_out)
  /\ join_timed_out' = (join_timed_out \/ timed_out)
  /\ UNCHANGED <<caller, full_audio, tts, flow, overlay>>

\* Lines 254-271: join(timeout=2.0) when the thread is alive and is not the
\* thread running this call (line 257), then the fields are cleared; back to
\* the caller or to line 212.
ResetClear(timed_out) ==
  /\ pc = "reset_join"
  /\ timed_out <=> (is_alive(monitoring_thread) /\ monitoring_thread # caller)
  /\ is_recording' = FALSE
  /\ audio_data' = <<>>
  /\ monitoring_thread' = None
  /\ stop_event' = FALSE
  /\ IF in_start
     THEN pc' = "start_activate" /\ UNCHANGED ret
     ELSE pc' = "idle" /\ ret' = Returned("reset", 271, TRUE, NoAudio)
  /\ in_start' = FALSE
  /\ UNCHANGED <<cfg, now, stream, recording_start_time, streams, cb, mon>>
  /\ stop_cause' = "none"
  /\ lastCompletedAudio' = NoAudio
  /\ Fault(timed_out)
  /\ join_timed_out' = (join_timed_out \/ timed_out)
  /\ UNCHANGED <<caller, full_audio, tts, flow, overlay>>

\* -------------------------------------------------------- stop_recording
\* StopNothing with the stop signal of line 286 given before the test.
StopNothing_signals ==
  /\ pc = "stop"
  /\ ~is_recording /\ Len(audio_data) = 0
  /\ pc' = "idle"
  /\ ret' = Returned("stop", 277, FALSE, NoAudio)
  /\ stop_event' = TRUE
  /\ stop_cause' = set_stop_event("controller")
  /\ UNCHANGED <<cfg, now, in_start, is_recording, audio_data,
                 monitoring_thread, stream, recording_start_time,
                 streams, cb, mon, faults, lastCompletedAudio>>
  /\ UNCHANGED <<caller, full_audio, join_timed_out, tts, flow, overlay>>

\* Lines 275-277.
StopNothing ==
  /\ pc = "stop"
  /\ ~is_recording /\ Len(audio_data) = 0
  /\ pc' = "idle"
  /\ ret' = Returned("stop", 277, FALSE, NoAudio)
  /\ UNCHANGED <<cfg, now, in_start, is_recording, audio_data,
                 monitoring_thread, stop_event, stream, recording_start_time,
                 streams, cb, mon, faults>>
  /\ UNCHANGED <<stop_cause, lastCompletedAudio>>
  /\ UNCHANGED <<caller, full_audio, join_timed_out, tts, flow, overlay>>

\* StopBegin without the early return of lines 275-277.
StopBegin_no_early_return ==
  /\ pc = "stop"
  /\ IF is_recording
     THEN /\ is_recording' = FALSE
          /\ stop_event' = TRUE
          /\ pc' = "stop_stream"
     ELSE /\ pc' = "stop_process"
          /\ UNCHANGED <<is_recording, stop_event>>
  /\ UNCHANGED <<cfg, now, in_start, ret, audio_data, monitoring_thread,
                 stream, recording_start_time, streams, cb, mon, faults>>
  /\ stop_cause' = (IF is_recording THEN set_stop_event("controller")
                  ELSE stop_cause)
  /\ UNCHANGED lastCompletedAudio
  /\ UNCHANGED <<caller, full_audio, join_timed_out, tts, flow, overlay>>

\* Lines 279-286, or line 313 when only buffered frames remain.
StopBegin ==
  /\ pc = "stop"
  /\ ~(~is_recording /\ Len(audio_data) = 0)
  /\ IF is_recording
     THEN /\ is_recording' = FALSE
          /\ stop_event' = TRUE
          /\ pc' = "stop_stream"
     ELSE /\ pc' = "stop_process"
          /\ UNCHANGED <<is_recording, stop_event>>
  /\ UNCHANGED <<cfg, now, in_start, ret, audio_data, monitoring_thread,
                 stream, recording_start_time, streams, cb, mon,
                 faults>>
  /\ stop_cause' = (IF is_recording THEN set_stop_event("controller")
                  ELSE stop_cause)
  /\ UNCHANGED lastCompletedAudio
  /\ UNCHANGED <<caller, full_audio, join_timed_out, tts, flow, overlay>>

\* Lines 288-295: stream.stop() waits for a running callback to return; an
\* exception of stop() or close() leaves through lines 336-338.
StopStream(outcome) ==
  /\ pc = "stop_stream"
  /\ IF stream = None
     THEN /\ outcome = "ok"
          /\ pc' = "stop_join"
          /\ UNCHANGED <<stream, streams, ret>>
     ELSE \/ /\ outcome = "ok"
             /\ cb[stream] = "idle"
             /\ streams' = [streams EXCEPT ![stream] = "closed"]
             /\ stream' = None
             /\ pc' = "stop_join"
             /\ UNCHANGED ret
          \/ /\ outcome = "stop_raises"
             /\ pc' = "idle"
             /\ ret' = Returned("stop", 338, FALSE, NoAudio)
             /\ UNCHANGED <<stream, streams>>
          \/ /\ outcome = "close_raises"
             /\ cb[stream] = "idle"
             /\ streams' = [streams EXCEPT ![stream] = "open"]
             /\ pc' = "idle"
             /\ ret' = Returned("stop", 338, FALSE, NoAudio)
             /\ UNCHANGED stream
  /\ UNCHANGED <<cfg, now, in_start, is_recording, audio_data,
                 monitoring_thread, stop_event, recording_start_time,
                 cb, mon>>
  /\ UNCHANGED <<stop_cause, lastCompletedAudio>>
  /\ Fault(outcome # "ok")
  /\ UNCHANGED <<caller, full_audio, join_timed_out, tts, flow, overlay>>

\* StopJoinCheck without the test of line 301.
StopJoinCheck_no_identity ==
  /\ pc = "stop_join"
  /\ pc' = IF is_alive(monitoring_thread) THEN "stop_joining"
           ELSE "stop_process"
  /\ UNCHANGED <<cfg, now, in_start, ret, is_recording, audio_data,
                 monitoring_thread, stop_event, stream, recording_start_time,
                 streams, cb, mon, faults>>
  /\ UNCHANGED <<stop_cause, lastCompletedAudio>>
  /\ UNCHANGED <<caller, full_audio, join_timed_out, tts, flow, overlay>>

\* Lines 297-301: is there a live monitor thread to wait for, other than the
\* thread running this call?  With none alive the reference is left as it
\* is; on the monitor thread itself the join is skipped (lines 305-306) and
\* line 311 drops the reference.
StopJoinCheck ==
  /\ pc = "stop_join"
  /\ IF ~is_alive(monitoring_thread)
     THEN pc' = "stop_process" /\ UNCHANGED monitoring_thread
     ELSE IF monitoring_thread # caller
     THEN pc' = "stop_joining" /\ UNCHANGED monitoring_thread
     ELSE pc' = "stop_process" /\ monitoring_thread' = None
  /\ UNCHANGED <<cfg, now, in_start, ret, is_recording, audio_data,
                 stop_event, stream, recording_start_time,
                 streams, cb, mon, faults>>
  /\ UNCHANGED <<stop_cause, lastCompletedAudio>>
  /\ UNCHANGED <<caller, full_audio, join_timed_out, tts, flow, overlay>>

\* StopJoin that gives up the stop when the join times out.
StopJoin_aborts(timed_out) ==
  /\ pc = "stop_joining"
  /\ timed_out <=> is_alive(monitoring_thread)
  /\ monitoring_thread' = None
  /\ IF timed_out
     THEN pc' = "idle" /\ ret' = Returned("stop", 338, FALSE, NoAudio)
     ELSE pc' = "stop_process" /\ UNCHANGED ret
  /\ UNCHANGED <<cfg, now, in_start, is_recording, audio_data,
                 stop_event, stream, recording_start_time, streams, cb, mon>>
  /\ UNCHANGED <<stop_cause, lastCompletedAudio>>
  /\ Fault(timed_out)
  /\ join_timed_out' = (join_timed_out \/ timed_out)
  /\ UNCHANGED <<caller, full_audio, tts, flow, overlay>>

\* Lines 302-311: join(timeout=2.0) returns, and the reference is dropped
\* whether or not the thread has ended.
StopJoin(timed_out) ==
  /\ pc = "stop_joining"
  /\ timed_out <=> is_alive(monitoring_thread)
  /\ monitoring_thread' = None
  /\ pc' = "stop_process"
  /\ UNCHANGED <<cfg, now, in_start, ret, is_recording, audio_data,
                 stop_event, stream, recording_start_time, streams, cb, mon>>
  /\ UNCHANGED <<stop_cause, lastCompletedAudio>>
  /\ Fault(timed_out)
  /\ join_timed_out' = (join_timed_out \/ timed_out)
  /\ UNCHANGED <<caller, full_audio, tts, flow, overlay>>

\* StopProcess that clears stop_event once the stream is stopped.
StopProcess_clears_event ==
  /\ pc = "stop_process"
  /\ IF Len(audio_data) = 0
     THEN /\ ret' = Returned("stop", 318, FALSE, NoAudio)
          /\ pc' = "idle"
          /\ UNCHANGED full_audio
     ELSE /\ full_audio' = concatenate(audio_data)
          /\ pc' = "stop_encode"
          /\ UNCHANGED ret
  /\ stop_event' = FALSE
  /\ stop_cause' = "none"
  /\ UNCHANGED <<cfg, now, in_start, is_recording, audio_data,
                 monitoring_thread, stream, recording_start_time,
                 streams, cb, mon, faults>>
  /\ UNCHANGED <<lastCompletedAudio, caller, join_timed_out, tts, flow, overlay>>

\* Lines 315-321: nothing buffered, or np.concatenate builds full_audio from
\* the chunks the buffer holds at this moment.
StopProcess ==
  /\ pc = "stop_process"
  /\ IF Len(audio_data) = 0
     THEN /\ ret' = Returned("stop", 318, FALSE, NoAudio)
          /\ pc' = "idle"
          /\ UNCHANGED full_audio
     ELSE /\ full_audio' = concatenate(audio_data)
          /\ pc' = "stop_encode"
          /\ UNCHANGED ret
  /\ UNCHANGED <<cfg, now, in_start, is_recording, audio_data,
                 monitoring_thread, stop_event, stream, recording_start_time,
                 streams, cb, mon, faults>>
  /\ UNCHANGED <<stop_cause, lastCompletedAudio>>
  /\ UNCHANGED <<caller, join_timed_out, tts, flow, overlay>>

\* StopEncode that hands out bytes although sf.write raised.
StopEncode_partial(encoded) ==
  /\ pc = "stop_encode"
  /\ ret' = Returned("stop", IF encoded THEN 334 ELSE 338, TRUE,
                     wav_bytes(full_audio))
  /\ audio_data' = (IF encoded THEN <<>> ELSE audio_data)
  /\ full_audio' = <<>>
  /\ pc' = "idle"
  /\ UNCHANGED <<cfg, now, in_start, is_recording, monitoring_thread,
                 stop_event, stream, recording_start_time, streams, cb, mon>>
  /\ lastCompletedAudio' = ret'.val
  /\ UNCHANGED stop_cause
  /\ Fault(~encoded)
  /\ UNCHANGED <<caller, join_timed_out, tts, flow, overlay>>

\* Lines 324-338: sf.write encodes full_audio and line 331 replaces the
\* buffer by an empty list; sf.write may raise, which leaves the buffer.
StopEncode(encoded) ==
  /\ pc = "stop_encode"
  /\ IF encoded
     THEN /\ ret' = Returned("stop", 334, TRUE, wav_bytes(full_audio))
          /\ audio_data' = <<>>
     ELSE /\ ret' = Returned("stop", 338, FALSE, NoAudio)
          /\ UNCHANGED audio_data
  /\ full_audio' = <<>>
  /\ pc' = "idle"
  /\ UNCHANGED <<cfg, now, in_start, is_recording, monitoring_thread,
                 stop_event, stream, recording_start_time, streams, cb, mon>>
  /\ lastCompletedAudio' = (IF ret'.ok THEN ret'.val ELSE lastCompletedAudio)
  /\ UNCHANGED stop_cause
  /\ Fault(~encoded)
  /\ UNCHANGED <<caller, join_timed_out, tts, flow, overlay>>

\* ------------------------------------------------------- _audio_callback
\* Line 122, on the I/O thread of stream s: the test of self.is_recording.
\* (A callback that finds the flag false returns without any effect.)
CallbackCheck(s) ==
  /\ streams[s] = "running"
  /\ cb[s] = "idle"
  /\ is_recording
  /\ Len(audio_data) + Cardinality({x \in Ids : cb[x] = "append"}) < MaxFrames
  /\ cb' = [cb EXCEPT ![s] = "append"]
  /\ UNCHANGED <<cfg, now, pc, in_start, ret, is_recording, audio_data,
                 monitoring_thread, stop_event, stream, recording_start_time,
                 streams, mon, faults>>
  /\ UNCHANGED <<stop_cause, lastCompletedAudio>>
  /\ UNCHANGED <<caller, full_audio, join_timed_out, tts, flow, overlay>>

\* Lines 123-130: the chunk (channels = 1: indata[:, 0]) is appended.
CallbackAppend(s, indata) ==
  /\ cb[s] = "append"
  /\ audio_data' = Append(audio_data, [src |-> s, data |-> indata])
  /\ cb' = [cb EXCEPT ![s] = "idle"]
  /\ UNCHANGED <<cfg, now, pc, in_start, ret, is_recording,
                 monitoring_thread, stop_event, stream, recording_start_time,
                 streams, mon, faults>>
  /\ UNCHANGED <<stop_cause, lastCompletedAudio>>
  /\ UNCHANGED <<caller, full_audio, join_timed_out, tts, flow, overlay>>

\* Lines 123-130 raise (numpy failing on the block, no memory for the copy).
\* _audio_callback has no handler, so the exception leaves it: nothing is
\* appended, and sounddevice, which registers its callbacks with
\* error=paAbort, aborts the stream, which stays open but delivers no more.
CallbackRaises(s) ==
  /\ cb[s] = "append"
  /\ cb' = [cb EXCEPT ![s] = "idle"]
  /\ streams' = [streams EXCEPT ![s] = IF @ = "running" THEN "open" ELSE @]
  /\ Fault(TRUE)
  /\ UNCHANGED <<cfg, now, pc, in_start, ret, is_recording, audio_data,
                 monitoring_thread, stop_event, stream, recording_start_time,
                 mon>>
  /\ UNCHANGED <<stop_cause, lastCompletedAudio>>
  /\ UNCHANGED <<caller, full_audio, join_timed_out, tts, flow, overlay>>

\* ------------------------------------------------------ _monitor_silence
\* The gate of line 143 measured from the epoch instead of the start.
before_min_time_from_epoch(current_time) ==
  current_time < 0

\* Line 143.
before_min_time(current_time) ==
  current_time - recording_start_time < cfg.min

\* Lines 148-152: is there a most recent chunk, and is it non-empty?
has_recent_audio ==
  Len(audio_data) > 0 /\ Len(audio_data[Len(audio_data)].data) > 0

recent_is_silent == below_threshold(audio_data[Len(audio_data)].data)

\* Line 161 with > for >=.
silence_elapsed_strict(silence_start, current_time) ==
  current_time - silence_start > cfg.sil

\* Line 161.
silence_elapsed(silence_start, current_time) ==
  current_time - silence_start >= cfg.sil

\* Lines 156-164: the silence timer has run long enough: set and break.
silence_stop(silence_start, current_time) ==
  /\ has_recent_audio
  /\ recent_is_silent
  /\ silence_start # Unset
  /\ silence_elapsed(silence_start, current_time)

\* Lines 156-169: the silence timer after this tick's evaluation.
next_silence_start(silence_start, current_time) ==
  IF ~has_recent_audio THEN silence_start
  ELSE IF recent_is_silent
       THEN (IF silence_start = Unset THEN current_time ELSE silence_start)
       ELSE Unset

\* Lines 174-175.
max_time_reached(current_time) ==
  /\ recording_start_time # Unset
  /\ current_time - recording_start_time >= cfg.max


\* MonitorStep that ends the session itself when it signals: is_recording is
\* cleared and the stream is stopped and closed on the monitor thread.
MonitorStep_tears_down(t) ==
  LET signals == /\ is_recording /\ ~stop_event
                 /\ ~before_min_time(now)
                 /\ \/ silence_stop(mon[t].silence_start, now)
                    \/ max_time_reached(now)
  IN
  /\ mon[t].pc = "loop"
  /\ mon[t].sleep = 0
  /\ ~(caller = t /\ pc # "idle")
  /\ IF ~(is_recording /\ ~stop_event)
     THEN /\ mon' = [mon EXCEPT ![t] = NoMon]
          /\ UNCHANGED <<stop_event, stop_cause>>
     ELSE IF before_min_time(now)
     THEN /\ mon' = [mon EXCEPT ![t].sleep = POLL]
          /\ UNCHANGED <<stop_event, stop_cause>>
     ELSE IF silence_stop(mon[t].silence_start, now)
     THEN /\ stop_event' = TRUE
          /\ stop_cause' = "silence"
          /\ mon' = [mon EXCEPT ![t] = NoMon]
     ELSE IF max_time_reached(now)
     THEN /\ stop_event' = TRUE
          /\ stop_cause' = "max"
          /\ mon' = [mon EXCEPT ![t] = NoMon]
     ELSE /\ mon' = [mon EXCEPT
                       ![t].silence_start =
                          next_silence_start(mon[t].silence_start, now),
                       ![t].sleep = POLL]
          /\ UNCHANGED <<stop_event, stop_cause>>
  /\ is_recording' = (is_recording /\ ~signals)
  /\ streams' = IF signals /\ stream # None
                THEN [streams EXCEPT ![stream] = "closed"] ELSE streams
  /\ now' = rebased(now, mon', pc)
  /\ recording_start_time' = rebased(recording_start_time, mon', pc)
  /\ UNCHANGED <<cfg, pc, in_start, ret, audio_data,
                 monitoring_thread, stream, cb,
                 faults, lastCompletedAudio>>
  /\ UNCHANGED <<caller, full_audio, join_timed_out, tts, flow, overlay>>

\* MonitorStep whose loop tests stop_event only (while not stop_event).
MonitorStep_event_only(t) ==
  /\ mon[t].pc = "loop"
  /\ mon[t].sleep = 0
  /\ ~(caller = t /\ pc # "idle")
  /\ IF stop_event
     THEN /\ mon' = [mon EXCEPT ![t] = NoMon]
          /\ UNCHANGED <<stop_event, stop_cause>>
     ELSE IF before_min_time(now)
     THEN /\ mon' = [mon EXCEPT ![t].sleep = POLL]
          /\ UNCHANGED <<stop_event, stop_cause>>
     ELSE IF silence_stop(mon[t].silence_start, now)
     THEN /\ stop_event' = TRUE
          /\ stop_cause' = "silence"
          /\ mon' = [mon EXCEPT ![t] = NoMon]
     ELSE IF max_time_reached(now)
     THEN /\ stop_event' = TRUE
          /\ stop_cause' = "max"
          /\ mon' = [mon EXCEPT ![t] = NoMon]
     ELSE /\ mon' = [mon EXCEPT
                       ![t].silence_start =
                          next_silence_start(mon[t].silence_start, now),
                       ![t].sleep = POLL]
          /\ UNCHANGED <<stop_event, stop_cause>>
  /\ now' = rebased(now, mon', pc)
  /\ recording_start_time' = rebased(recording_start_time, mon', pc)
  /\ UNCHANGED <<cfg, pc, in_start, ret, is_recording, audio_data,
                 monitoring_thread, stream, streams, cb,
                 faults, lastCompletedAudio>>
  /\ UNCHANGED <<caller, full_audio, join_timed_out, tts, flow, overlay>>

\* One pass of the loop of lines 138-181 on monitor thread t, taken when its
\* time.sleep(0.1) has ended.
MonitorStep(t) ==
  /\ mon[t].pc = "loop"
  /\ mon[t].sleep = 0
  /\ ~(caller = t /\ pc # "idle")
  /\ IF ~(is_recording /\ ~stop_event)
     THEN /\ mon' = [mon EXCEPT ![t] = NoMon]
          /\ UNCHANGED <<stop_event, stop_cause>>
     ELSE IF before_min_time(now)
     THEN /\ mon' = [mon EXCEPT ![t].sleep = POLL]
          /\ UNCHANGED <<stop_event, stop_cause>>
     ELSE IF silence_stop(mon[t].silence_start, now)
     THEN /\ stop_event' = TRUE
          /\ stop_cause' = "silence"
          /\ mon' = [mon EXCEPT ![t] = NoMon]
     ELSE IF max_time_reached(now)
     THEN /\ stop_event' = TRUE
          /\ stop_cause' = "max"
          /\ mon' = [mon EXCEPT ![t] = NoMon]
     ELSE /\ mon' = [mon EXCEPT
                       ![t].silence_start =
                          next_silence_start(mon[t].silence_start, now),
                       ![t].sleep = POLL]
          /\ UNCHANGED <<stop_event, stop_cause>>
  /\ now' = rebased(now, mon', pc)
  /\ recording_start_time' = rebased(recording_start_time, mon', pc)
  /\ UNCHANGED <<cfg, pc, in_start, ret, is_recording, audio_data,
                 monitoring_thread, stream, streams, cb,
                 faults, lastCompletedAudio>>
  /\ UNCHANGED <<caller, full_audio, join_timed_out, tts, flow, overlay>>

\* --------------------------------------------------------- specifications
\* The client: an operation is called, or its watchdog gives the signal.
Client ==
  \/ \E op \in {"start", "stop", "reset"} : Call(op)
  \/ ExternalSetStop

\* The steps that involve neither an exception nor a join.
Steps ==
  \/ StartRefused
  \/ StartBegin
  \/ StartCleanup
  \/ StartActivate
  \/ ResetBegin
  \/ StopNothing
  \/ StopBegin
  \/ StopJoinCheck
  \/ StopProcess
  \/ \E s \in Ids : CallbackCheck(s)
  \/ \E s \in Ids, d \in FrameData : CallbackAppend(s, d)
  \/ \E t \in Ids : MonitorStep(t)

Faultless == Client \/ Steps

\* Every interleaving of the threads; joins may time out, and the stream,
\* the thread start and the encoder may raise.
Next ==
  \/ Faultless
  \/ Tick
  \/ \E b \in BOOLEAN : StartJoin(b)
  \/ \E o \in {"ok", "open_raises", "start_raises"} : StartStream(o)
  \/ \E b \in BOOLEAN : StartSpawn(b)
  \/ \E o \in {"ok", "stop_raises", "close_raises"} : ResetStream(o)
  \/ \E b \in BOOLEAN : ResetClear(b)
  \/ \E o \in {"ok", "stop_raises", "close_raises"} : StopStream(o)
  \/ \E b \in BOOLEAN : StopJoin(b)
  \/ \E b \in BOOLEAN : StopEncode(b)
  \/ \E s \in Ids : CallbackRaises(s)

Spec == Init /\ [][Next]_vars

\* Every interleaving, with time passing and every monitor thread whose
\* sleep has ended getting to run: the operating system starves no thread.
SpecLive ==
  /\ Init /\ [][Next]_vars
  /\ WF_vars(Tick)
  /\ \A t \in Ids : WF_vars(MonitorStep(t))

\* Threads that are scheduled on time: a monitor whose sleep has ended runs
\* before the clock moves on, and so no bounded join expires (the monitor
\* sleeps 0.1 s at a time, the joins wait 1 s and 2 s).
TickTimed ==
  /\ \A t \in Ids : mon[t].pc = "loop" => mon[t].sleep > 0
  /\ Tick

NextTimed ==
  \/ Faultless
  \/ TickTimed
  \/ StartJoin(FALSE)
  \/ \E o \in {"ok", "open_raises", "start_raises"} : StartStream(o)
  \/ \E b \in BOOLEAN : StartSpawn(b)
  \/ \E o \in {"ok", "stop_raises", "close_raises"} : ResetStream(o)
  \/ ResetClear(FALSE)
  \/ \E o \in {"ok", "stop_raises", "close_raises"} : StopStream(o)
  \/ StopJoin(FALSE)
  \/ \E b \in BOOLEAN : StopEncode(b)
  \/ \E s \in Ids : CallbackRaises(s)

SpecTimed == Init /\ [][NextTimed]_vars

\* Timely scheduling without exceptions, with stop_recording() and reset()
\* also invoked on a monitor thread.  A monitor thread that has returned
\* from such a call goes on with its loop before the client calls again.
SelfQuiet == IF caller = None THEN TRUE ELSE mon[caller].pc = "dead"

NextSelf ==
  \/ SelfQuiet /\ Client
  \/ \E op \in {"stop", "reset"}, t \in Ids : CallOnMonitor(op, t)
  \/ Steps
  \/ TickTimed
  \/ StartStream("ok")
  \/ StartSpawn(TRUE)
  \/ ResetStream("ok")
  \/ ResetClear(FALSE)
  \/ StopStream("ok")
  \/ StopJoin(FALSE)
  \/ StopEncode(TRUE)

SpecSelf == Init /\ [][NextSelf]_vars

\* ------------------------------------------------------- hotkey handlers
\* main.py lines 147-158 and 519-529: the hotkey handler gets the recorder
\* and calls recorder.reset().
HotkeyPressed(kind) ==
  /\ flow.pc = "idle" /\ pc = "idle"
  /\ flow' = [NoFlow EXCEPT !.pc = "reset", !.kind = kind]
  /\ pc' = "reset"
  /\ ret' = Pending
  /\ caller' = None
  /\ join_timed_out' = FALSE
  /\ UNCHANGED <<cfg, now, in_start, is_recording, audio_data,
                 monitoring_thread, stop_event, stream, recording_start_time,
                 streams, cb, mon, faults, stop_cause, lastCompletedAudio,
                 full_audio, tts, overlay>>

\* Lines 202 and 557: recorder.start_recording(), reset() having returned.
FlowStart ==
  /\ flow.pc = "reset" /\ pc = "idle"
  /\ cfg.avail /\ ~is_recording =>
       (\E s \in Ids : free_stream(s)) /\ (\E t \in Ids : free_thread(t))
  /\ flow' = [flow EXCEPT !.pc = "start"]
  /\ pc' = "start"
  /\ ret' = Pending
  /\ join_timed_out' = FALSE
  /\ UNCHANGED <<cfg, now, in_start, is_recording, audio_data,
                 monitoring_thread, stop_event, stream, recording_start_time,
                 streams, cb, mon, faults, stop_cause, lastCompletedAudio,
                 caller, full_audio, tts, overlay>>

\* Lines 203-211 and 558-568: a failed start ends the handler (the OpenAI
\* one goes on without voice); after a successful one wait_start_time is
\* taken.
FlowStarted ==
  /\ flow.pc = "start" /\ pc = "idle"
  /\ flow' = IF ret.ok
             THEN [flow EXCEPT !.pc = "wait", !.wait_start = now, !.sleep = 0]
             ELSE NoFlow
  /\ UNCHANGED <<recorder, tts, overlay>>

\* One pass of the wait loop, lines 213-228 and 570-581, when its
\* time.sleep(0.1) has ended: the loop ends when the recorder is no longer
\* active, when stop_event is seen set (line 216, in the Claude handler
\* only), or when the watchdog expires and sets stop_event itself; then
\* recorder.stop_recording() is called.
FlowPoll ==
  LET timeout == now - flow.wait_start > MAX_WAIT
      leave == \/ ~is_recording
               \/ flow.kind = "claude" /\ stop_event
               \/ timeout
      forced == /\ is_recording
                /\ ~(flow.kind = "claude" /\ stop_event)
                /\ timeout
      running == \E t \in Ids : mon[t].pc = "loop"
  IN
  /\ flow.pc = "wait" /\ flow.sleep = 0 /\ pc = "idle"
  /\ IF leave
     THEN /\ flow' = [flow EXCEPT !.pc = "stop", !.wait_start = Unset]
          /\ pc' = "stop"
          /\ ret' = Pending
          /\ stop_event' = (stop_event \/ forced)
          /\ stop_cause' = (IF forced THEN set_stop_event("caller")
                            ELSE stop_cause)
          /\ now' = (IF running THEN now ELSE 0)
          /\ recording_start_time' = (IF running THEN recording_start_time
                                      ELSE 0)
     ELSE /\ flow' = [flow EXCEPT !.sleep = POLL]
          /\ UNCHANGED <<pc, ret, stop_event, stop_cause, now,
                         recording_start_time>>
  /\ join_timed_out' = FALSE
  /\ UNCHANGED <<cfg, in_start, is_recording, audio_data,
                 monitoring_thread, stream, streams, cb, mon, faults,
                 lastCompletedAudio, caller, full_audio, tts, overlay>>

\* Lines 228-233 and 581-589: stop_recording() has returned; what the
\* handler does with the audio is not followed.
FlowStopped ==
  /\ flow.pc = "stop" /\ pc = "idle"
  /\ flow' = NoFlow
  /\ UNCHANGED <<recorder, tts, overlay>>

\* The client and the monitor are both scheduled on time, and a call of the
\* recorder takes no time against the poll interval.
TickFlow ==
  /\ pc = "idle" /\ flow.pc \in {"idle", "wait"}
  /\ flow.pc = "wait" => flow.sleep > 0
  /\ TickTimed

InitFlow == cfg \in FlowConfigs /\ Constructed

\* A handler at a time, no exceptions.
NextFlow ==
  \/ \E kind \in {"claude", "openai"} : HotkeyPressed(kind)
  \/ FlowStart
  \/ FlowStarted
  \/ FlowPoll
  \/ FlowStopped
  \/ TickFlow
  \/ StartRefused
  \/ StartBegin
  \/ StartCleanup
  \/ StartActivate
  \/ StartStream("ok")
  \/ StartSpawn(TRUE)
  \/ ResetBegin
  \/ ResetStream("ok")
  \/ ResetClear(FALSE)
  \/ StopBegin
  \/ StopStream("ok")
  \/ StopJoinCheck
  \/ StopProcess
  \/ StopEncode(TRUE)
  \/ \E s \in Ids : CallbackCheck(s)
  \/ \E s \in Ids, d \in FrameData : CallbackAppend(s, d)
  \/ \E t \in Ids : MonitorStep(t)

SpecFlow == InitFlow /\ [][NextFlow]_vars

\* The handlers with the exceptions the recorder can meet (the stream, the
\* thread start, the encoder, the callback), and with threads that get to
\* run: time passes, the wait loop polls, a monitor whose sleep has ended
\* takes its pass.
NextFlowFaults ==
  \/ NextFlow
  \/ \E o \in {"open_raises", "start_raises"} : StartStream(o)
  \/ StartSpawn(FALSE)
  \/ \E o \in {"stop_raises", "close_raises"} : ResetStream(o)
  \/ \E o \in {"stop_raises", "close_raises"} : StopStream(o)
  \/ StopEncode(FALSE)
  \/ \E s \in Ids : CallbackRaises(s)

SpecFlowFaults ==
  /\ InitFlow /\ [][NextFlowFaults]_vars
  /\ WF_vars(TickFlow)
  /\ WF_vars(FlowPoll)
  /\ \A t \in Ids : WF_vars(MonitorStep(t))

\* -------------------------------------------------------------- tts_speak
\* Lines 18-25: a request with its body (text, language) reaches the handler.
tts_speak(text, language) ==
  /\ tts.pc \in {"idle", "done"}
  /\ tts' = [pc |-> "speak", text |-> text, language |-> language,
             calls |-> 0, first |-> NoResult, response |-> NoResponse]
  /\ UNCHANGED <<recorder, flow, overlay>>

\* Lines 27-40: service.speak(text, language) for the submitted text.
speak_text(result) ==
  /\ tts.pc = "speak"
  /\ tts' = [tts EXCEPT
               !.calls = @ + 1,
               !.first = result,
               !.pc = IF result.raised THEN "error_speak"
                      ELSE IF Len(result.audio) = 0 THEN "empty_speak"
                      ELSE "done",
               !.response = IF ~result.raised /\ Len(result.audio) # 0
                            THEN StreamingResponse(result.audio) ELSE @]
  /\ UNCHANGED <<recorder, flow, overlay>>

\* Lines 32-40: the result was empty; service.speak for the apology.
speak_apology(result) ==
  /\ tts.pc = "empty_speak"
  /\ tts' = [tts EXCEPT
               !.calls = @ + 1,
               !.pc = IF result.raised THEN "error_speak" ELSE "done",
               !.response = IF result.raised THEN @
                            ELSE StreamingResponse(result.audio)]
  /\ UNCHANGED <<recorder, flow, overlay>>

\* speak_error answering 500 when the error speech fails as well.
speak_error_http(result) ==
  /\ tts.pc = "error_speak"
  /\ tts' = [tts EXCEPT
               !.calls = @ + 1,
               !.pc = "done",
               !.response =
                  IF result.raised
                  THEN [status |-> 500, media_type |-> "application/json",
                        body |-> <<>>]
                  ELSE StreamingResponse(result.audio)]
  /\ UNCHANGED <<recorder, flow, overlay>>

\* Lines 42-51: an exception was caught; service.speak for the error speech,
\* and an empty body when that raises too.
speak_error(result) ==
  /\ tts.pc = "error_speak"
  /\ tts' = [tts EXCEPT
               !.calls = @ + 1,
               !.pc = "done",
               !.response = IF result.raised THEN StreamingResponse(<<>>)
                            ELSE StreamingResponse(result.audio)]
  /\ UNCHANGED <<recorder, flow, overlay>>

NextTts ==
  \/ \E text \in Texts, language \in Languages : tts_speak(text, language)
  \/ \E result \in ServiceResults : speak_text(result)
  \/ \E result \in ServiceResults : speak_apology(result)
  \/ \E result \in ServiceResults : speak_error(result)

SpecTts == Init /\ [][NextTts]_vars

\* ---------------------------------------------------------------- overlay
\* Lines 213-242, on any thread: the closure is put on the command queue.
display_response(response, show_window) ==
  /\ Len(overlay.requested) < MaxCalls
  /\ Len(overlay.queue) < MaxPending
  /\ overlay' = [overlay EXCEPT
                   !.queue = Append(@, Command("_display_response_main_thread",
                                               response, show_window)),
                   !.requested = Append(@, response)]
  /\ UNCHANGED <<recorder, tts, flow>>

\* Lines 244-272, on any thread.
display_error(error) ==
  /\ Len(overlay.requested) < MaxCalls
  /\ Len(overlay.queue) < MaxPending
  /\ overlay' = [overlay EXCEPT
                   !.queue = Append(@, Command("_display_error_main_thread",
                                               error, TRUE)),
                   !.requested = Append(@, error)]
  /\ UNCHANGED <<recorder, tts, flow>>

\* Lines 280-294, on any thread (the first call of every hotkey handler).
set_processing_status ==
  /\ Len(overlay.queue) < MaxPending
  /\ overlay' = [overlay EXCEPT
                   !.queue = Append(@,
                      Command("_set_processing_status_main_thread", "",
                              TRUE))]
  /\ UNCHANGED <<recorder, tts, flow>>

\* Lines 27-30 of _process_queue, on the main thread: one command is taken
\* from the queue and run.  show_window() and update_status() called by a
\* command put their own closures at the end of the queue (lines 187, 211);
\* create_window (lines 57-173) runs only in _show_window_main_thread.
process_command ==
  LET command == Head(overlay.queue)
      rest == Tail(overlay.queue)
      with_show == IF command.show THEN Append(rest, show_window_command)
                   ELSE rest
  IN
  /\ overlay.queue # <<>>
  /\ overlay' =
       IF command.fn = "_show_window_main_thread"
       THEN [overlay EXCEPT !.queue = rest,
                            !.window = TRUE, !.text_widget = TRUE]
       ELSE IF command.fn = "_update_status_main_thread"
       THEN [overlay EXCEPT !.queue = rest]
       ELSE IF command.fn = "_set_processing_status_main_thread"
       THEN [overlay EXCEPT
               !.text = IF overlay.text_widget THEN "processing" ELSE @,
               !.queue = Append(Append(rest, update_status_command),
                                show_window_command)]
       ELSE IF ~overlay.text_widget
       THEN [overlay EXCEPT !.queue = with_show]
       ELSE [overlay EXCEPT
               !.text = command.arg,
               !.displayed = Append(@, command.arg),
               !.queue = Append(with_show, update_status_command)]
  /\ UNCHANGED <<recorder, tts, flow>>

NextOverlay ==
  \/ \E m \in Messages, b \in BOOLEAN : display_response(m, b)
  \/ \E m \in Messages : display_error(m)
  \/ set_processing_status
  \/ process_command

SpecOverlay == Init /\ [][NextOverlay]_vars

\* ----------------------------------------------------------------- claims
OpenStreams == {s \in Ids : is_open(s)}
IdleFields ==
  /\ ~is_recording
  /\ audio_data = <<>>
  /\ stream = None
  /\ monitoring_thread = None
  /\ ~stop_event

\* C1: a start_recording() that finds is_recording set returns False and
\* leaves is_recording, the frame buffer, the stream, the monitor thread and
\* stop_event exactly as they were, also when the monitor has already
\* signalled the automatic stop.
Thm_C1 ==
  [][(pc = "start" /\ pc' # "start" /\ is_recording) =>
       /\ pc' = "idle"
       /\ ret'.op = "start" /\ ~ret'.ok
       /\ UNCHANGED <<is_recording, audio_data, stream, monitoring_thread,
                      stop_event, streams, mon>>]_vars
Wit_C1 ==
  /\ pc = "idle" /\ ret.at = 194
  /\ is_recording /\ stop_event /\ stop_cause \in {"silence", "max"}

Thm_C3 ==
  \A t \in Ids :
    (mon[t].pc = "loop" /\ mon[t].silence_start # Unset
       /\ is_recording /\ ~stop_event)
    => now - mon[t].silence_start < cfg.sil + POLL
Wit_C3 ==
  /\ stop_event /\ stop_cause = "silence" /\ is_recording
  /\ Len(audio_data) > 0 /\ recent_is_silent

Orig_C5 ==
  [][\A t \in Ids :
       (/\ mon[t].pc = "loop" /\ mon[t].sleep = 0 /\ mon'[t] # mon[t]
        /\ is_recording /\ ~stop_event
        /\ t = monitoring_thread
        /\ now - recording_start_time >= cfg.max)
       => stop_event']_vars

\* C6 as stated: between operations, when the recorder is not recording, no
\* input stream is open.
Orig_C6 == (pc = "idle" /\ ~is_recording) => OpenStreams = {}

\* C7 as stated: a frame is appended to the buffer only in a state in which
\* is_recording is set.
Orig_C7 == [][Len(audio_data') > Len(audio_data) => is_recording]_vars

\* C8 as stated: at most one input stream is open at any time.
Orig_C8 == Cardinality(OpenStreams) <= 1

\* C9: reset(), called by the client or by start_recording(), ends normally
\* with is_recording false, the buffer empty, no stream and no monitor
\* thread referred to and stop_event clear, whatever the state it began in.
Thm_C9 ==
  [][(pc = "reset_join" /\ pc' # pc) =>
       /\ IdleFields'
       /\ pc' \in {"idle", "start_activate"}
       /\ pc' = "idle" => ret' = Returned("reset", 271, TRUE, NoAudio)]_vars
Wit_C9 ==
  /\ pc = "idle" /\ ret.op = "reset" /\ IdleFields
  /\ recording_start_time # Unset

\* C10: for every configuration, a stop_recording() before any start got
\* past its guards returns None without raising and leaves the recorder
\* idle: not recording, empty buffer, stop_event clear.
Thm_C10 ==
  [][(pc = "stop" /\ pc' # "stop" /\ recording_start_time = Unset) =>
       /\ pc' = "idle"
       /\ ret' = Returned("stop", 277, FALSE, NoAudio)
       /\ UNCHANGED <<is_recording, audio_data, stream, monitoring_thread,
                      stop_event, streams, mon>>
       /\ IdleFields']_vars
Wit_C10 ==
  /\ pc = "idle" /\ ret.at = 277
  /\ recording_start_time = Unset

\* C11 as stated: a stop_recording() that returns bytes returns the encoding
\* of the concatenation, in order, of every frame appended to the buffer up
\* to its return, and leaves the buffer empty.
Orig_C11 ==
  [][(pc = "stop_encode" /\ pc' = "idle" /\ ret'.ok) =>
       /\ ret'.val = wav_bytes(concatenate(audio_data))
       /\ audio_data' = <<>>]_vars

\* C12: a start_recording() whose setup raises (sd.InputStream, stream.start
\* or the monitor thread's start) returns False with is_recording false; it
\* goes on to the monitor thread only with its stream started, and returns
\* True only from there, with the monitor thread started.
Thm_C12 ==
  [][/\ (pc = "start_stream" /\ pc' = "start_spawn") =>
          /\ faults' = faults
          /\ stream' # None /\ streams'[stream'] = "running"
     /\ (pc \in {"start_stream", "start_spawn"} /\ pc' = "idle") =>
          /\ ret'.op = "start"
          /\ faults' > faults => ~ret'.ok
          /\ ~ret'.ok => (ret'.at = 234 /\ ~is_recording')
          /\ ret'.ok => /\ pc = "start_spawn" /\ ret'.at = 229
                        /\ is_recording'
                        /\ stream' # None /\ is_open(stream)
                        /\ monitoring_thread' # None
                        /\ mon'[monitoring_thread'].pc = "loop"]_vars
Wit_C12 ==
  /\ pc = "idle" /\ ret.op = "start" /\ ret.at = 234
  /\ ~is_recording /\ stream # None /\ streams[stream] = "open"

StopPositions ==
  {"stop", "stop_stream", "stop_join", "stop_joining", "stop_process",
   "stop_encode"}

\* C13: every way out of stop_recording() is a return: one taken because
\* stream.stop(), stream.close() or sf.write raised returns None, and bytes
\* are returned only by the step that encoded the whole of full_audio, the
\* concatenation made at line 321.
Thm_C13 ==
  [][(pc \in StopPositions /\ pc' = "idle") =>
       /\ ret'.op = "stop"
       /\ faults' > faults => ret' = Returned("stop", 338, FALSE, NoAudio)
       /\ ~ret'.ok => ret'.val = NoAudio
       /\ ret'.ok => /\ pc = "stop_encode" /\ ret'.at = 334
                     /\ full_audio # <<>>
                     /\ ret'.val = wav_bytes(full_audio)]_vars
Wit_C13 ==
  /\ pc = "idle" /\ ret = Returned("stop", 338, FALSE, NoAudio)
  /\ stream = None /\ Len(audio_data) > 0

\* C14: stop_recording() and reset() running on the monitor thread that
\* self.monitoring_thread refers to never enter a join of that thread: they
\* pass the join without waiting and without a timeout, drop the reference
\* and go on (stop to the processing of the audio, reset to its return with
\* every field cleared), the thread being still alive.
Thm_C14 ==
  [][/\ pc' = "stop_joining" => caller' # monitoring_thread'
     /\ \A t \in Ids :
          (caller = t /\ monitoring_thread = t /\ mon[t].pc = "loop") =>
            /\ (pc = "stop_join" /\ pc' # pc) =>
                  /\ pc' = "stop_process"
                  /\ monitoring_thread' = None
                  /\ ~join_timed_out' /\ faults' = faults
            /\ (pc = "reset_join" /\ pc' # pc) =>
                  /\ pc' = "idle" /\ ret' = Returned("reset", 271, TRUE, NoAudio)
                  /\ IdleFields'
                  /\ ~join_timed_out' /\ faults' = faults
                  /\ mon'[t].pc = "loop"]_vars
Wit_C14 ==
  /\ pc = "stop_process" /\ caller # None /\ mon[caller].pc = "loop"
  /\ mon[caller].started = recording_start_time /\ monitoring_thread = None
  /\ Len(audio_data) > 0 /\ \A t \in Ids \ {caller} : mon[t].pc = "dead"

\* C15: the join of stop_recording() returns whether or not the monitor
\* thread has ended, and a stop whose join timed out goes on exactly as any
\* other: it concatenates the buffered frames and, unless the encoder
\* raises, returns their encoding (None when nothing was buffered).
Thm_C15 ==
  [][/\ (pc = "stop_joining" /\ pc' # pc) =>
          /\ pc' = "stop_process"
          /\ UNCHANGED <<audio_data, is_recording, ret>>
     /\ (join_timed_out /\ pc = "stop_process" /\ pc' # pc) =>
          IF Len(audio_data) = 0
          THEN pc' = "idle" /\ ret' = Returned("stop", 318, FALSE, NoAudio)
          ELSE pc' = "stop_encode" /\ full_audio' = concatenate(audio_data)
     /\ (join_timed_out /\ pc = "stop_encode" /\ pc' # pc
           /\ faults' = faults) =>
          /\ pc' = "idle"
          /\ ret' = Returned("stop", 334, TRUE, wav_bytes(full_audio))]_vars
Wit_C15 ==
  /\ pc = "idle" /\ ret.op = "stop" /\ ret.at = 334 /\ ret.val.data # <<>>
  /\ join_timed_out
  /\ \E t \in Ids : mon[t].pc = "loop"

\* C16: stop_event, once set, is cleared by no step other than the clearing
\* of the fields at the end of reset() (line 269), called by the client or
\* from start_recording(); the monitor threads, the client's watchdog and
\* stop_recording() only ever set it.
Thm_C16 ==
  [][(stop_event /\ ~stop_event') =>
       /\ pc = "reset_join"
       /\ pc' \in {"idle", "start_activate"}
       /\ UNCHANGED mon]_vars
Wit_C16 ==
  /\ pc = "idle" /\ ret.op = "stop" /\ ret.at = 334
  /\ stop_event /\ stop_cause \in {"silence", "max"}
  /\ ~is_recording

\* C17 as stated: once reset() has run, recording_start_time is undefined
\* again (it is defined only if is_recording has been set since the last
\* reset).
Orig_C17 ==
  (pc = "idle" /\ ret = Returned("reset", 271, TRUE, NoAudio))
    => recording_start_time = Unset

\* C18 as stated: when the frame callback raises, the frame is dropped and
\* the I/O thread is not affected: the stream that was running goes on
\* running, so that the frames that follow are appended.
Orig_C18 ==
  [][\A s \in Ids :
       (cb[s] = "append" /\ cb'[s] = "idle" /\ faults' > faults) =>
         /\ UNCHANGED audio_data
         /\ streams'[s] = streams[s]]_vars

\* C19: every request to /tts/speak that has been answered was answered
\* with status 200 and an audio media type; when service.speak returned
\* bytes for the submitted text the body is those bytes and the service was
\* asked once; when it returned nothing or raised, the service was asked
\* again for an error speech and the body is that speech or empty.
Thm_C19 ==
  tts.pc = "done" =>
    /\ tts.response.status = 200
    /\ tts.response.media_type = "audio/wav"
    /\ IF ~tts.first.raised /\ tts.first.audio # <<>>
       THEN tts.response.body = tts.first.audio /\ tts.calls = 1
       ELSE tts.calls \in {2, 3} /\ tts.response.body \in Audio
Wit_C19 ==
  /\ tts.pc = "done" /\ tts.text = "hello"
  /\ tts.first.raised /\ tts.calls = 2 /\ tts.response.body = <<>>

\* C20 as stated: while a handler waits with the recorder still active, the
\* session has lasted no longer than max_recording_time and one poll
\* interval: the monitor has signalled by then and the wait loop has seen
\* the signal at its next poll.
Orig_C20 ==
  (flow.pc = "wait" /\ is_recording)
    => now - recording_start_time <= cfg.max + POLL

\* C21 as stated: every pass of the monitor loop evaluates the maximum
\* duration, also while the time since the start is below
\* min_recording_time: a pass taken with the session recording and not yet
\* signalled, at max_recording_time or later, sets stop_event and ends the
\* thread.
Orig_C21 ==
  [][\A t \in Ids :
       (/\ mon[t].pc = "loop" /\ mon[t].sleep = 0 /\ mon'[t] # mon[t]
        /\ is_recording /\ ~stop_event
        /\ recording_start_time # Unset
        /\ now - recording_start_time >= cfg.max)
       => stop_event' /\ mon'[t].pc = "dead"]_vars

\* C22 as stated: a pass of the monitor loop past the minimum gate that
\* finds no frame in the buffer, or an empty most recent frame, counts as
\* silence: it leaves the silence timer running (started by this pass or
\* earlier) unless it signals the stop.
Orig_C22 ==
  [][\A t \in Ids :
       (/\ mon[t].pc = "loop" /\ mon[t].sleep = 0 /\ mon'[t] # mon[t]
        /\ is_recording /\ ~stop_event
        /\ ~before_min_time(now)
        /\ ~has_recent_audio)
       => mon'[t].silence_start # Unset \/ stop_event']_vars

\* The energy of a chunk is at or above the threshold (both sides squared).
sound(chunk) == SumSq(chunk) >= cfg.thr * cfg.thr * Len(chunk)
last_frame == audio_data[Len(audio_data)].data

\* C23 as stated: a pass of the monitor loop whose most recent frame has an
\* energy at or above silence_threshold (equality included) leaves no
\* silence timer running; a timer is started only by a pass that finds
\* silence, at the time of that pass; and a silence stop is signalled only by
\* a pass that finds silence with a timer that has run for silence_duration.
\* A timer that runs has then seen nothing but silence since it was started.
Orig_C23 ==
  [][\A t \in Ids :
       (/\ mon[t].pc = "loop" /\ mon[t].sleep = 0 /\ mon'[t] # mon[t]
        /\ is_recording /\ ~stop_event)
       => /\ (Len(audio_data) > 0 /\ sound(last_frame))
               => /\ mon'[t].silence_start = Unset
                  /\ stop_event' => stop_cause' = "max"
          /\ (mon'[t].silence_start # Unset
                /\ mon'[t].silence_start # mon[t].silence_start)
               => /\ mon'[t].silence_start = now
                  /\ Len(audio_data) > 0 /\ ~sound(last_frame)
          /\ (stop_event' /\ stop_cause' = "silence")
               => /\ Len(audio_data) > 0 /\ ~sound(last_frame)
                  /\ mon[t].silence_start # Unset
                  /\ now - mon[t].silence_start >= cfg.sil]_vars

\* C24: a pass of the monitor loop that finds stop_event set or is_recording
\* false ends the thread without changing anything else; and a monitor
\* thread that is alive when the client is between calls with stop_event set
\* or is_recording false (after stop_recording(), reset() or the watchdog's
\* set) terminates unless the client calls the recorder again.  (The clock
\* of the model ends at MaxTime: a thread asleep then is not followed.)
Thm_C24 ==
  /\ [][\A t \in Ids :
          (/\ mon[t].pc = "loop" /\ mon[t].sleep = 0 /\ mon'[t] # mon[t]
           /\ (stop_event \/ ~is_recording))
          => /\ mon'[t].pc = "dead"
             /\ UNCHANGED <<stop_event, is_recording, audio_data, stream,
                            streams, monitoring_thread>>]_vars
  /\ \A t \in Ids :
       (/\ mon[t].pc = "loop" /\ pc = "idle"
        /\ (stop_event \/ ~is_recording)
        /\ (mon[t].sleep > 0 => now < MaxTime))
       ~> (mon[t].pc = "dead" \/ pc # "idle")
Wit_C24 ==
  /\ pc = "idle" /\ ret.op \in {"stop", "reset"} /\ join_timed_out
  /\ ~stop_event => ret.op = "reset"
  /\ \A t \in Ids : mon[t].pc = "dead"

\* C25: a step of a monitor thread changes nothing of the recorder but
\* stop_event, which it only ever sets: is_recording, the buffer, the
\* stream, the thread reference and the client's position are left alone;
\* and every step that changes a stream or the stream reference is a step of
\* the client's thread or of an I/O thread, never of a monitor thread.
Thm_C25 ==
  [][/\ \A t \in Ids :
          (mon[t].pc = "loop" /\ mon[t].sleep = 0 /\ mon'[t] # mon[t])
          => /\ UNCHANGED <<is_recording, audio_data, stream, streams, cb,
                            monitoring_thread, pc, ret, caller>>
             /\ stop_event => stop_event'
     /\ (streams' # streams \/ stream' # stream)
          => /\ UNCHANGED mon
             /\ caller = None
             /\ \/ pc \in {"start_stream", "reset_stream", "stop_stream"}
                \/ cb' # cb]_vars
Wit_C25 ==
  /\ pc = "idle" /\ ret.at = 229
  /\ stop_event /\ stop_cause \in {"silence", "max"}
  /\ is_recording /\ stream # None /\ streams[stream] = "running"
  /\ \A t \in Ids : mon[t].pc = "dead"

\* C26 as stated: at the moment start_recording() sets is_recording (line
\* 212) the buffer is empty and stop_event is clear, and while the session
\* records, every frame in the buffer was delivered by the session's own
\* stream: none comes from the stream of an earlier session.
Orig_C26 ==
  /\ [][(pc = "start_activate" /\ pc' = "start_stream") =>
          audio_data = <<>> /\ ~stop_event]_vars
  /\ [](is_recording =>
          \A i \in 1..Len(audio_data) : audio_data[i].src = stream)

\* C27 as stated: at most one monitor thread is alive at any time, also
\* after a join that timed out and a reference that was dropped.
Orig_C27 == Cardinality({t \in Ids : mon[t].pc = "loop"}) <= 1

\* C28 as stated: stop_event is set by a monitor thread only for its own
\* session: the thread whose pass sets it is the one the recorder refers to,
\* spawned by the start_recording() of the session in progress, never a
\* thread left over from an earlier session.
Orig_C28 ==
  [][\A t \in Ids :
       (/\ mon[t].pc = "loop" /\ mon[t].sleep = 0 /\ mon'[t].pc = "dead"
        /\ ~stop_event /\ stop_event')
       => t = monitoring_thread]_vars

\* C29 as stated: a handler that waits after a successful start_recording()
\* gets to call stop_recording(), no later than its watchdog of max_wait_time
\* allows; and once that stop_recording() has returned, the recorder is
\* inactive and no stream is left open.
Orig_C29 ==
  /\ (flow.pc = "wait") ~> (flow.pc = "stop")
  /\ [](flow.pc = "wait" => now - flow.wait_start <= MAX_WAIT + POLL)
  /\ []((flow.pc = "stop" /\ pc = "idle")
          => (~is_recording /\ stream = None /\ OpenStreams = {}))

\* C30 as stated: once the main thread has drained the command queue, every
\* text handed to display_response or display_error has been put into the
\* text widget, in the order of the calls, the first call made before the
\* window exists included.
Orig_C30 ==
  overlay.queue = <<>> => overlay.displayed = overlay.requested

====
